---- MODULE Spec2Model ----
(***************************************************************************)
(* A model of github.com/symonk/profiler: the process-wide guard           *)
(* profilingActive, the Profiler sessions, Start, Stop, the strategies of  *)
(* StrategyMap with their finalizers, and the signal goroutine that Start  *)
(* spawns.  Goroutines interleave at the granularity of the calls Stop and *)
(* Start make: the guard CAS, the strategy or finalizer call, the callback *)
(* and the report are separate steps.                                      *)
(***************************************************************************)
EXTENDS Integers, Sequences, FiniteSets, TLC

\* ------------------------------------------------------------------ bounds
\* Sessions constructed in one run (by Start or by New).
MaxSessions == 2
\* Goroutines of the host program that call Start, Stop and New.
NumCallers == 2
\* SIGINT / SIGTERM deliveries in one run.
MaxSignals == 1
\* Calls of Start, Stop and New the host program makes in one run.
MaxCalls == 3

\* ------------------------------------------------------------------- modes
CPUMode == 0
MemoryHeapMode == 1
MemoryAllocMode == 2
BlockMode == 3
GoroutineMode == 4
MutexMode == 5
ThreadCreateMode == 6
TraceMode == 7
ClockMode == 8

Modes == CPUMode .. ClockMode

CPUFileName == "cpu.pprof"
MemoryFileName == "memory.pprof"
BlockFileName == "block.pprof"
GoroutineFileName == "goroutine.pprof"
MutexFileName == "mutex.pprof"
ThreadCreateFileName == "threadcreate.pprof"
TraceFileName == "trace.out"
ClockFileName == "clock.pprof"

\* runtime.MemProfileRate when the process starts (512 * 1024 in the Go
\* runtime; the model only needs it to differ from the configured rates).
DefaultMemProfileRate == 512

\* ----------------------------------------------------------------- threads
Callers == 1 .. NumCallers
SessionIds == 1 .. MaxSessions
\* The goroutine Start spawns for session s.
Watcher(s) == NumCallers + s
Watchers == {Watcher(s) : s \in SessionIds}
Threads == Callers \cup Watchers
SessionOf(t) == t - NumCallers
\* Who acts, as the history and the log record it: 0 for the host program's
\* goroutines, the goroutine's id for a signal goroutine.
Who(t) == IF t \in Callers THEN 0 ELSE t

\* Process exit status: Running until os.Exit, log.Fatalf or a panic.
Running == -1

VARIABLES
    profilingActive,  \* the guard: 0 idle, 1 active
    sessions,         \* sequence of Profiler records, indexed by session id
    pc,               \* position of every goroutine
    cur,              \* the session a goroutine's Start/Stop works on (0: none)
    exitCode,         \* Running, or the code the process exited with
    fatal,            \* message of die, "panic" for a nil finalizer call, "" otherwise
    stderr,           \* the log lines written so far
    MemProfileRate,   \* runtime.MemProfileRate
    blockRate,        \* the rate runtime.SetBlockProfileRate set
    mutexFraction,    \* the fraction runtime.SetMutexProfileFraction set (0: off)
    cpuProfiling,     \* session whose sink runtime/pprof streams the CPU profile to (0: off)
    tracing,          \* session whose sink runtime/trace streams to (0: off)
    clockSampling,    \* sessions whose fgprof sampler is running
    sigch,            \* per watcher: signals buffered in its channel (cap 1)
    notified,         \* watchers whose channel is registered with signal.Notify
    nsignals,         \* signals delivered so far
    ncalls,           \* calls of Start, Stop and New made so far
    optionSpace,      \* the option lists the host program passes to Start / New
    fsSpace,          \* what the file system may do to CreateProfileFile in this run
    faultSpace,       \* what the sink may do to the writes and the Close of a finalizer
    hist              \* history of the run: what each Stop and Start did

vars == <<profilingActive, sessions, pc, cur, exitCode, fatal, stderr,
          MemProfileRate, blockRate, mutexFraction, cpuProfiling, tracing,
          clockSampling,
          sigch, notified, nsignals, ncalls, optionSpace, fsSpace, faultSpace,
          hist>>

\* ----------------------------------------------------------------- options
\* options.go: every option is a function applied to the Profiler by New.
WithProfileFileLocation(path) == [opt |-> "WithProfileFileLocation", path |-> path, rate |-> 0]
WithCPUProfiler == [opt |-> "WithCPUProfiler", path |-> "", rate |-> 0]
WithHeapMemoryProfiling == [opt |-> "WithHeapMemoryProfiling", path |-> "", rate |-> 0]
WithAllocMemoryProfiling == [opt |-> "WithAllocMemoryProfiling", path |-> "", rate |-> 0]
WithMemoryProfilingRate(rate) == [opt |-> "WithMemoryProfilingRate", path |-> "", rate |-> rate]
WithoutSignalHandling == [opt |-> "WithoutSignalHandling", path |-> "", rate |-> 0]
WithCallback == [opt |-> "WithCallback", path |-> "", rate |-> 0]
WithQuietOutput == [opt |-> "WithQuietOutput", path |-> "", rate |-> 0]
WithTracing == [opt |-> "WithTracing", path |-> "", rate |-> 0]
WithRealTimeData == [opt |-> "WithRealTimeData", path |-> "", rate |-> 0]
WithMutexFraction(rate) == [opt |-> "WithMutexFraction", path |-> "", rate |-> rate]
WithClockProfiling == [opt |-> "WithClockProfiling", path |-> "", rate |-> 0]
\* The options the documentation lists for the block, goroutine and thread
\* creation modes.
WithBlockProfiler == [opt |-> "WithBlockProfiler", path |-> "", rate |-> 0]
WithGoroutineProfiler == [opt |-> "WithGoroutineProfiler", path |-> "", rate |-> 0]
WithThreadProfiler == [opt |-> "WithThreadProfiler", path |-> "", rate |-> 0]

\* The effect of one option on the Profiler p.
ApplyOption(p, o) ==
    CASE o.opt = "WithProfileFileLocation" -> [p EXCEPT !.profileFolder = o.path]
      [] o.opt = "WithCPUProfiler" -> [p EXCEPT !.profileMode = CPUMode]
      [] o.opt = "WithHeapMemoryProfiling" -> [p EXCEPT !.profileMode = MemoryHeapMode]
      [] o.opt = "WithAllocMemoryProfiling" -> [p EXCEPT !.profileMode = MemoryAllocMode]
      [] o.opt = "WithMemoryProfilingRate" -> [p EXCEPT !.memoryProfileRate = o.rate]
      [] o.opt = "WithoutSignalHandling" -> [p EXCEPT !.signalHandling = FALSE]
      [] o.opt = "WithCallback" -> [p EXCEPT !.callback = TRUE]
      [] o.opt = "WithQuietOutput" -> [p EXCEPT !.quiet = TRUE]
      [] o.opt = "WithTracing" -> [p EXCEPT !.profileMode = TraceMode]
      [] o.opt = "WithRealTimeData" -> [p EXCEPT !.live = TRUE]
      [] o.opt = "WithMutexFraction" -> [p EXCEPT !.profileMode = MutexMode]
      [] o.opt = "WithClockProfiling" -> [p EXCEPT !.profileMode = ClockMode]
      [] o.opt = "WithBlockProfiler" -> [p EXCEPT !.profileMode = BlockMode]
      [] o.opt = "WithGoroutineProfiler" -> [p EXCEPT !.profileMode = GoroutineMode]
      [] o.opt = "WithThreadProfiler" -> [p EXCEPT !.profileMode = ThreadCreateMode]

\* A sink handle: nil until SetProfileFile, then an *os.File.
NoFile == [folder |-> "", name |-> "", open |-> FALSE, data |-> <<>>]

\* The Profiler literal of New; the fields Go leaves out take their zero value.
\* savedRate is the variable `rate` the heap and alloc finalizers close over.
NewProfiler(memRate) ==
    [profileFolder |-> ".",
     profileFile |-> NoFile,
     signalHandling |-> TRUE,
     profileMode |-> 0,
     memoryProfileRate |-> memRate,
     quiet |-> FALSE,
     callback |-> FALSE,
     finalizer |-> "nil",
     live |-> FALSE,
     interrupted |-> FALSE,
     savedRate |-> 0]

\* The options applied from the last to the first.
RECURSIVE ApplyOptionsReversed(_, _)
ApplyOptionsReversed(p, options) ==
    IF options = <<>> THEN p
    ELSE ApplyOption(ApplyOptionsReversed(p, Tail(options)), Head(options))

RECURSIVE ApplyOptions(_, _)
ApplyOptions(p, options) ==
    IF options = <<>> THEN p
    ELSE ApplyOptions(ApplyOption(p, Head(options)), Tail(options))

\* New(options...): the defaults, then every option in order.
New(options, memRate) == ApplyOptions(NewProfiler(memRate), options)

\* A registry whose heap strategy writes to a file of its own.
StrategyMapHeapFile ==
    [m \in Modes |->
        CASE m = CPUMode -> CPUFileName
          [] m = MemoryHeapMode -> "heap.pprof"
          [] m = MemoryAllocMode -> MemoryFileName
          [] m = MutexMode -> MutexFileName
          [] m = BlockMode -> BlockFileName
          [] m = GoroutineMode -> GoroutineFileName
          [] m = ThreadCreateMode -> ThreadCreateFileName
          [] m = TraceMode -> TraceFileName
          [] m = ClockMode -> ClockFileName]

\* StrategyMap: the file name and the kind of strategy of every mode.
StrategyMap ==
    [m \in Modes |->
        CASE m = CPUMode -> CPUFileName
          [] m = MemoryHeapMode -> MemoryFileName
          [] m = MemoryAllocMode -> MemoryFileName
          [] m = MutexMode -> MutexFileName
          [] m = BlockMode -> BlockFileName
          [] m = GoroutineMode -> GoroutineFileName
          [] m = ThreadCreateMode -> ThreadCreateFileName
          [] m = TraceMode -> TraceFileName
          [] m = ClockMode -> ClockFileName]

\* ------------------------------------------------------------ file helper
\* What the file system does to CreateProfileFile: MkdirAll works ("ok"),
\* MkdirAll fails and MkdirTemp works ("fallback"), both fail ("tempfail"),
\* or os.Create fails after either folder was made ("createfail").
FsOutcomes == {"ok", "fallback", "tempfail", "createfail"}
TempFolder == "/tmp/profiler1"

\* A CreateProfileFile that makes the file in the requested folder although
\* MkdirAll failed.
CreateProfileFileNoFallback(folder, name, fs) ==
    CASE fs \in {"ok", "fallback"} ->
            [err |-> "", file |-> [folder |-> folder, name |-> name, open |-> TRUE, data |-> <<>>]]
      [] fs = "tempfail" -> [err |-> "failed to create temp folder", file |-> NoFile]
      [] fs = "createfail" -> [err |-> "failed to create profile file", file |-> NoFile]

\* CreateProfileFile(folder, name): the open file, or the error.
CreateProfileFile(folder, name, fs) ==
    CASE fs = "ok" ->
            [err |-> "", file |-> [folder |-> folder, name |-> name, open |-> TRUE, data |-> <<>>]]
      [] fs = "fallback" ->
            [err |-> "", file |-> [folder |-> TempFolder, name |-> name, open |-> TRUE, data |-> <<>>]]
      [] fs = "tempfail" -> [err |-> "failed to create temp folder", file |-> NoFile]
      [] fs = "createfail" -> [err |-> "failed to create profile file", file |-> NoFile]

\* ------------------------------------------------------- sinks and backend
\* A write to a sink: lost when the handle is closed (the strategies discard
\* the error of WriteTo).
WriteTo(file, what) ==
    IF file.open THEN [file EXCEPT !.data = Append(@, what)] ELSE file

\* (*os.File).Close: an error on a handle that is already closed.
Close(file) ==
    [err |-> IF file.open THEN "" ELSE "file already closed",
     file |-> [file EXCEPT !.open = FALSE]]

\* The global state of the Go runtime and of the profiling backends.
Globals ==
    [MemProfileRate |-> MemProfileRate,
     blockRate |-> blockRate,
     mutexFraction |-> mutexFraction,
     cpuProfiling |-> cpuProfiling,
     tracing |-> tracing,
     clockSampling |-> clockSampling]

\* The stream a backend holds open is flushed into the sink it was started
\* with, whichever session asks for the stop.
Flush(ss, owner, what) ==
    IF owner = 0 THEN ss
    ELSE [ss EXCEPT ![owner].profileFile = WriteTo(@, what)]

\* SetProfileFile(name) followed by the rest of the strategy of p's mode, for
\* the session that will get id s.  err is the message die is called with
\* ("" when the strategy returns a finalizer).
Strategy(p, s, g, fs) ==
    LET cf == CreateProfileFile(p.profileFolder, StrategyMap[p.profileMode], fs)
        p1 == [p EXCEPT !.profileFile = cf.file]
        bound == [p1 EXCEPT !.finalizer = "bound"]
        m == p.profileMode
    IN  IF cf.err # "" THEN [err |-> cf.err, p |-> p, g |-> g]
        ELSE CASE m = CPUMode ->
                    IF g.cpuProfiling # 0
                    THEN [err |-> "cpu profiling already in use", p |-> p1, g |-> g]
                    ELSE [err |-> "", p |-> bound, g |-> [g EXCEPT !.cpuProfiling = s]]
               [] m \in {MemoryHeapMode, MemoryAllocMode} ->
                    [err |-> "",
                     p |-> [bound EXCEPT !.savedRate = g.MemProfileRate],
                     g |-> [g EXCEPT !.MemProfileRate = p.memoryProfileRate]]
               [] m = MutexMode ->
                    [err |-> "",
                     p |-> [bound EXCEPT !.profileFile = WriteTo(@, "mutex")],
                     g |-> g]
               [] m = GoroutineMode ->
                    [err |-> "",
                     p |-> [bound EXCEPT !.profileFile = WriteTo(@, "goroutine")],
                     g |-> g]
               [] m \in {BlockMode, ThreadCreateMode} ->
                    [err |-> "", p |-> bound, g |-> g]
               [] m = TraceMode ->
                    IF g.tracing # 0
                    THEN [err |-> "tracing is already enabled", p |-> p1, g |-> g]
                    ELSE [err |-> "", p |-> bound, g |-> [g EXCEPT !.tracing = s]]
               [] m = ClockMode ->
                    [err |-> "", p |-> bound,
                     g |-> [g EXCEPT !.clockSampling = @ \cup {s}]]

\* What the sink does to a finalizer: everything works ("ok"), the writes
\* and the flush of the backend into it fail ("flushfail"), or its Close
\* fails ("closefail").
Faults == {"ok", "flushfail", "closefail"}

\* The name of the snapshot pprof.Lookup(...).WriteTo writes for mode m.
SnapshotName(m) ==
    CASE m = MemoryHeapMode -> "heap"
      [] m = MemoryAllocMode -> "allocs"
      [] m = BlockMode -> "block"
      [] m = ThreadCreateMode -> "threadcreate"
      [] OTHER -> ""

\* The steps of the finalizers of the first strategy file, which close the
\* sink before they stop the stream or the sampler.
TeardownStepsCloseFirst(m) ==
    CASE m = CPUMode -> <<"Close", "StopCPUProfile">>
      [] m \in {MemoryHeapMode, MemoryAllocMode} ->
            <<"WriteTo", "GC", "Close", "RestoreMemProfileRate">>
      [] m \in {MutexMode, GoroutineMode} -> <<"Close">>
      [] m = BlockMode -> <<"WriteTo", "Close", "SetBlockProfileRate">>
      [] m = ThreadCreateMode -> <<"WriteTo", "Close">>
      [] m = TraceMode -> <<"Close", "traceStop">>
      [] m = ClockMode -> <<"Close", "teardown">>

\* Finalizers of the mutex and goroutine modes that write the profile when
\* the session is stopped.
TeardownStepsSnapshotAtStop(m) ==
    CASE m = CPUMode -> <<"StopCPUProfile", "Close">>
      [] m \in {MemoryHeapMode, MemoryAllocMode} ->
            <<"WriteTo", "GC", "Close", "RestoreMemProfileRate">>
      [] m \in {MutexMode, GoroutineMode} -> <<"WriteTo", "Close">>
      [] m = BlockMode -> <<"WriteTo", "Close", "SetBlockProfileRate">>
      [] m = ThreadCreateMode -> <<"WriteTo", "Close">>
      [] m = TraceMode -> <<"traceStop">>
      [] m = ClockMode -> <<"teardown", "Close">>

\* The steps the finalizer of mode m executes, in the order Go executes them:
\* the body first, then the deferred calls, last deferred first.
TeardownSteps(m) ==
    CASE m = CPUMode -> <<"StopCPUProfile", "Close">>
      [] m \in {MemoryHeapMode, MemoryAllocMode} ->
            <<"WriteTo", "GC", "Close", "RestoreMemProfileRate">>
      [] m \in {MutexMode, GoroutineMode} -> <<"Close">>
      [] m = BlockMode -> <<"WriteTo", "Close", "SetBlockProfileRate">>
      [] m = ThreadCreateMode -> <<"WriteTo", "Close">>
      [] m = TraceMode -> <<"traceStop">>
      [] m = ClockMode -> <<"teardown", "Close">>

\* One step of the finalizer of session s on st = [err, ss, g] when the sink
\* behaves as td.  The error of WriteTo is discarded, StopCPUProfile and
\* trace.Stop return nothing, and every Close assigns the result err.
TeardownStep(st, s, op, td) ==
    LET ss == st.ss
        g == st.g
        lost == td = "flushfail"
    IN  CASE op = "StopCPUProfile" ->
                [st EXCEPT !.ss = IF lost THEN ss ELSE Flush(ss, g.cpuProfiling, "cpu"),
                           !.g = [g EXCEPT !.cpuProfiling = 0]]
          [] op = "traceStop" ->
                [st EXCEPT !.ss = IF lost THEN ss ELSE Flush(ss, g.tracing, "trace"),
                           !.g = [g EXCEPT !.tracing = 0]]
          [] op = "teardown" ->
                [err |-> IF lost /\ s \in g.clockSampling THEN "fgprof: write failed" ELSE "",
                 ss |-> IF s \in g.clockSampling /\ ~lost
                        THEN [ss EXCEPT ![s].profileFile = WriteTo(@, "clock")]
                        ELSE ss,
                 g |-> [g EXCEPT !.clockSampling = @ \ {s}]]
          [] op = "WriteTo" ->
                [st EXCEPT !.ss = IF lost THEN ss
                                  ELSE [ss EXCEPT ![s].profileFile =
                                            WriteTo(@, SnapshotName(ss[s].profileMode))]]
          [] op = "GC" -> st
          [] op = "Close" ->
                [st EXCEPT !.err = IF td = "closefail" /\ ss[s].profileFile.open
                                   THEN "close failed"
                                   ELSE Close(ss[s].profileFile).err,
                           !.ss = [ss EXCEPT ![s].profileFile = Close(@).file]]
          [] op = "RestoreMemProfileRate" ->
                [st EXCEPT !.g = [g EXCEPT !.MemProfileRate = ss[s].savedRate]]
          [] op = "SetBlockProfileRate" ->
                [st EXCEPT !.g = [g EXCEPT !.blockRate = 0]]

RECURSIVE RunSteps(_, _, _, _)
RunSteps(st, s, steps, td) ==
    IF steps = <<>> THEN st
    ELSE RunSteps(TeardownStep(st, s, Head(steps), td), s, Tail(steps), td)

\* The finalizer the strategy of session s returned, run on the sessions ss
\* and the globals g: the sessions and globals after it, and the error it
\* returns ("" for nil).
Finalizer(ss, s, g, td) ==
    RunSteps([err |-> "", ss |-> ss, g |-> g], s, TeardownSteps(ss[s].profileMode), td)

\* --------------------------------------------------------------- the guard
\* A plain store in place of the compare-and-swap.
StoreUint32(v, old, new) ==
    [swapped |-> TRUE, value |-> new]

\* atomic.CompareAndSwapUint32(&profilingActive, old, new).
CompareAndSwapUint32(v, old, new) ==
    [swapped |-> v = old, value |-> IF v = old THEN new ELSE v]

AlreadyStarted == "profiler instance has already been started"
NotStarted == "profiler instance was not started"
NotImplemented == "profiler mode not implemented, this should never happen"
NilFinalizer == "panic: nil finalizer"

gvars == <<MemProfileRate, blockRate, mutexFraction, cpuProfiling, tracing, clockSampling>>
sigvars == <<sigch, notified, nsignals>>
env == <<optionSpace, fsSpace, faultSpace>>

SetGlobals(g) ==
    /\ MemProfileRate' = g.MemProfileRate
    /\ blockRate' = g.blockRate
    /\ mutexFraction' = g.mutexFraction
    /\ cpuProfiling' = g.cpuProfiling
    /\ tracing' = g.tracing
    /\ clockSampling' = g.clockSampling

\* A die that logs and exits with status 0.
dieWithStatusZero(because) ==
    /\ exitCode' = 0
    /\ fatal' = because

\* die(because): log.Fatalf, which exits the process with status 1.
die(because) ==
    /\ exitCode' = 1
    /\ fatal' = because

\* Start calls that passed the guard and have not yet run their strategy.
Pending == Cardinality({t \in Callers : pc[t] = "start_setup"})

\* The host program's goroutines are interchangeable while they are idle: the
\* next call is made by the lowest-numbered idle one.
IdleCaller(t) ==
    /\ t \in Callers
    /\ pc[t] = "idle"
    /\ \A u \in Callers : u < t => pc[u] # "idle"

\* A report that ignores p.quiet.
reportAlways(p, s, by, text, arg) ==
    <<[text |-> text, arg |-> arg, p |-> s, by |-> Who(by)]>>

\* p.report(...): the line, unless the session is quiet.
report(p, s, by, text, arg) ==
    IF p.quiet THEN <<>> ELSE <<[text |-> text, arg |-> arg, p |-> s, by |-> Who(by)]>>

\* ------------------------------------------------------------------- Start
\* A Start that builds its session before it dies on the guard.
StartLostAfterNew(t) ==
    /\ die(AlreadyStarted)
    /\ hist' = [hist EXCEPT !.startLost = @ + 1]
    /\ sessions' = IF Len(sessions) < MaxSessions
                   THEN Append(sessions, NewProfiler(MemProfileRate))
                   ELSE sessions
    /\ UNCHANGED pc

\* Start with the guard held: die("profiler instance has already been
\* started"), before New and before the strategy.
StartLost(t) ==
    /\ die(AlreadyStarted)
    /\ hist' = [hist EXCEPT !.startLost = @ + 1]
    /\ UNCHANGED <<pc, sessions>>

\* Start, up to the guard: the CAS 0 -> 1, or die.
StartCAS(t) ==
    /\ exitCode = Running
    /\ IdleCaller(t)
    /\ ncalls < MaxCalls
    /\ ncalls' = ncalls + 1
    /\ LET r == CompareAndSwapUint32(profilingActive, 0, 1)
       IN  IF r.swapped
           THEN /\ Len(sessions) + Pending < MaxSessions
                /\ profilingActive' = r.value
                /\ pc' = [pc EXCEPT ![t] = "start_setup"]
                /\ hist' = [hist EXCEPT !.starts = @ + 1, !.holder = 0 - t]
                /\ UNCHANGED <<exitCode, fatal, sessions>>
           ELSE /\ profilingActive' = r.value
                /\ StartLost(t)
    /\ UNCHANGED <<cur, stderr, gvars, sigvars, env>>

\* Start when the strategy returned an error: die, and nothing else.
SetupFailedReleasingGuard(because) ==
    /\ die(because)
    /\ profilingActive' = 0
    /\ UNCHANGED pc

SetupFailed(because) ==
    /\ die(because)
    /\ UNCHANGED <<profilingActive, pc>>

\* A signal goroutine spawned for every session.
ArmWatcherAlways(p) == "w_notify"

\* if p.signalHandling { go func() {...}() }
ArmWatcher(p) == IF p.signalHandling THEN "w_notify" ELSE "off"

\* Start after the guard: New, the StrategyMap lookup, the strategy, the
\* binding of the finalizer and the spawning of the signal goroutine.
StartSetup(t) ==
    /\ exitCode = Running
    /\ pc[t] = "start_setup"
    /\ \E options \in optionSpace, fs \in fsSpace :
        LET p0 == New(options, MemProfileRate)
            s == Len(sessions) + 1
        IN  IF p0.profileMode \notin DOMAIN StrategyMap
            THEN /\ SetupFailed(NotImplemented)
                 /\ sessions' = Append(sessions, p0)
                 /\ UNCHANGED <<gvars, hist>>
            ELSE LET r == Strategy(p0, s, Globals, fs)
                 IN  /\ sessions' = Append(sessions, r.p)
                     /\ SetGlobals(r.g)
                     /\ IF r.err # ""
                        THEN /\ SetupFailed(r.err)
                             /\ hist' = [hist EXCEPT !.fs[s] = fs]
                        ELSE /\ pc' = [pc EXCEPT ![t] = "idle",
                                                 ![Watcher(s)] = ArmWatcher(r.p)]
                             /\ hist' = [hist EXCEPT !.holder =
                                            IF @ = 0 - t THEN s ELSE @,
                                            !.before[s] = [MemProfileRate |-> MemProfileRate,
                                                           blockRate |-> blockRate],
                                            !.options[s] = options,
                                            !.fs[s] = fs]
                             /\ UNCHANGED <<profilingActive, exitCode, fatal>>
    /\ UNCHANGED <<cur, stderr, sigvars, ncalls, env>>

\* New called by the host program itself: a session no Start has bound.
CallNew(t) ==
    /\ exitCode = Running
    /\ IdleCaller(t)
    /\ ncalls < MaxCalls
    /\ ncalls' = ncalls + 1
    /\ Len(sessions) + Pending < MaxSessions
    /\ \E options \in optionSpace :
        sessions' = Append(sessions, New(options, MemProfileRate))
    /\ UNCHANGED <<profilingActive, pc, cur, exitCode, fatal, stderr, gvars,
                   sigvars, env, hist>>

\* -------------------------------------------------------------------- Stop
\* Stop on session s by goroutine t, up to the guard: the CAS 1 -> 0, or die.
StopCAS(t, s) ==
    LET r == CompareAndSwapUint32(profilingActive, 1, 0)
        call == [p |-> s, by |-> Who(t), holder |-> hist.holder,
                 stale |-> \/ sessions[s].finalizer = "nil"
                           \/ \E c \in hist.stops : c.p = s /\ c.passed,
                 passed |-> r.swapped]
    IN  /\ profilingActive' = r.value
        /\ IF r.swapped
           THEN /\ pc' = [pc EXCEPT ![t] = "stop_fin"]
                /\ cur' = [cur EXCEPT ![t] = s]
                /\ hist' = [hist EXCEPT !.stops = @ \cup {call},
                                        !.starts = 0, !.holder = 0]
                /\ UNCHANGED <<exitCode, fatal>>
           ELSE /\ die(NotStarted)
                /\ hist' = [hist EXCEPT !.stops = @ \cup {call}]
                /\ UNCHANGED <<pc, cur>>
        /\ UNCHANGED <<sessions, stderr, gvars, sigvars, env>>

\* p.Stop() called by the host program on a session it holds.
CallerStop(t, s) ==
    /\ exitCode = Running
    /\ IdleCaller(t)
    /\ s \in DOMAIN sessions
    /\ ncalls < MaxCalls
    /\ ncalls' = ncalls + 1
    /\ StopCAS(t, s)

\* Stop after a finalizer that returned nil: the report, without the
\* callback.
AfterFinalizerSkippingCallback(p) == "stop_report"

\* Stop after a finalizer that returned nil: the callback when the session
\* has one, then the report.
AfterFinalizer(p) == IF p.callback THEN "stop_cb" ELSE "stop_report"

\* p.finalizer(): a nil finalizer panics, an error is fatal.
StopFinalizer(t) ==
    /\ exitCode = Running
    /\ pc[t] = "stop_fin"
    /\ LET s == cur[t]
       IN  IF sessions[s].finalizer = "nil"
           THEN /\ exitCode' = 2
                /\ fatal' = NilFinalizer
                /\ UNCHANGED <<sessions, pc, hist, gvars>>
           ELSE \E td \in faultSpace :
                LET r == Finalizer(sessions, s, Globals, td)
                IN  /\ sessions' = r.ss
                    /\ SetGlobals(r.g)
                    /\ hist' = [hist EXCEPT !.teardowns[s] = @ + 1, !.faults[s] = td]
                    /\ IF r.err # ""
                       THEN die(r.err) /\ UNCHANGED pc
                       ELSE /\ pc' = [pc EXCEPT ![t] = AfterFinalizer(sessions[s])]
                            /\ UNCHANGED <<exitCode, fatal>>
    /\ UNCHANGED <<profilingActive, cur, stderr, sigvars, ncalls, env>>

\* p.callback(p), for a session that has one (Stop skips the call otherwise).
StopCallback(t) ==
    /\ exitCode = Running
    /\ pc[t] = "stop_cb"
    /\ LET s == cur[t]
       IN  hist' = [hist EXCEPT !.callbacks = Append(@,
                        [p |-> s, by |-> Who(t), interrupted |-> sessions[s].interrupted])]
    /\ pc' = [pc EXCEPT ![t] = "stop_report"]
    /\ UNCHANGED <<profilingActive, sessions, cur, exitCode, fatal, stderr,
                   gvars, sigvars, ncalls, env>>

\* filepath.Ext of the sink's name and the test for a trace file.
Ext(name) == IF name = TraceFileName THEN ".out" ELSE ".pprof"

\* A suffix test that never recognises a trace file.
HasSuffixOutNever(name) == FALSE

HasSuffixOut(name) == Ext(name) = ".out"

\* The arguments of a report line: the extension or the command, and the
\* absolute path of the sink as its folder and name.
Args(word, file) == [word |-> word, folder |-> file.folder, name |-> file.name]
NoArgs == [word |-> "", folder |-> "", name |-> ""]

\* The report at the end of Stop.
StopReport(t) ==
    /\ exitCode = Running
    /\ pc[t] = "stop_report"
    /\ LET s == cur[t]
           p == sessions[s]
           name == p.profileFile.name
           wasTrace == HasSuffixOut(name)
           cmd == IF wasTrace THEN "go tool trace" ELSE "go tool pprof -http :8080"
       IN  stderr' = stderr
                \o report(p, s, t, "profiling completed", Args(Ext(name), p.profileFile))
                \o report(p, s, t, "to view the profile", Args(cmd, p.profileFile))
                \o (IF p.interrupted
                    THEN report(p, s, t, "[warning] profiling was interrupted", NoArgs)
                    ELSE <<>>)
                \o (IF ~wasTrace
                    THEN report(p, s, t, "port can be any ephemeral port", NoArgs)
                         \o report(p, s, t, "Graph interpretation is outlined here", NoArgs)
                    ELSE <<>>)
    /\ pc' = [pc EXCEPT ![t] = IF t \in Callers THEN "idle" ELSE "w_exit"]
    /\ cur' = [cur EXCEPT ![t] = 0]
    /\ UNCHANGED <<profilingActive, sessions, exitCode, fatal, gvars, sigvars,
                   ncalls, env, hist>>

\* ------------------------------------------------- the signal goroutine
\* ch := make(chan os.Signal, 1); signal.Notify(ch, SIGINT, SIGTERM).
WatcherNotify(s) ==
    /\ exitCode = Running
    /\ pc[Watcher(s)] = "w_notify"
    /\ notified' = notified \cup {s}
    /\ pc' = [pc EXCEPT ![Watcher(s)] = "w_wait"]
    /\ UNCHANGED <<profilingActive, sessions, cur, exitCode, fatal, stderr,
                   gvars, sigch, nsignals, ncalls, env, hist>>

\* The operating system delivers SIGINT or SIGTERM: every registered channel
\* with room gets it; with no channel registered the default disposition
\* kills the process.
Signal ==
    /\ exitCode = Running
    /\ nsignals < MaxSignals
    /\ nsignals' = nsignals + 1
    /\ IF notified = {}
       THEN /\ exitCode' = 130
            /\ UNCHANGED sigch
       ELSE /\ sigch' = [s \in SessionIds |-> IF s \in notified THEN 1 ELSE sigch[s]]
            /\ UNCHANGED exitCode
    /\ UNCHANGED <<profilingActive, sessions, pc, cur, fatal, stderr, gvars,
                   notified, ncalls, env, hist>>

\* <-ch; p.report("sigterm received, performing tear down")
WatcherReceive(s) ==
    /\ exitCode = Running
    /\ pc[Watcher(s)] = "w_wait"
    /\ sigch[s] > 0
    /\ sigch' = [sigch EXCEPT ![s] = @ - 1]
    /\ stderr' = stderr \o report(sessions[s], s, Watcher(s), "sigterm received", NoArgs)
    /\ pc' = [pc EXCEPT ![Watcher(s)] = "w_set"]
    /\ UNCHANGED <<profilingActive, sessions, cur, exitCode, fatal, gvars,
                   notified, nsignals, ncalls, env, hist>>

\* A goroutine that goes on to Stop without the write of p.interrupted.
WatcherSetSkipped(s) ==
    /\ exitCode = Running
    /\ pc[Watcher(s)] = "w_set"
    /\ pc' = [pc EXCEPT ![Watcher(s)] = "w_stop"]
    /\ UNCHANGED <<profilingActive, sessions, cur, exitCode, fatal, stderr, gvars,
                   sigvars, ncalls, env, hist>>

\* p.interrupted = true
WatcherSet(s) ==
    /\ exitCode = Running
    /\ pc[Watcher(s)] = "w_set"
    /\ sessions' = [sessions EXCEPT ![s].interrupted = TRUE]
    /\ pc' = [pc EXCEPT ![Watcher(s)] = "w_stop"]
    /\ UNCHANGED <<profilingActive, cur, exitCode, fatal, stderr, gvars,
                   sigvars, ncalls, env, hist>>

\* p.Stop() called by the signal goroutine.
WatcherStop(s) ==
    /\ exitCode = Running
    /\ pc[Watcher(s)] = "w_stop"
    /\ StopCAS(Watcher(s), s)
    /\ UNCHANGED ncalls

\* A goroutine that exits the process before it has called Stop.
WatcherExitBeforeStop(s) ==
    /\ exitCode = Running
    /\ pc[Watcher(s)] = "w_stop"
    /\ exitCode' = 0
    /\ UNCHANGED <<profilingActive, sessions, pc, cur, fatal, stderr, gvars,
                   sigvars, ncalls, env, hist>>

\* os.Exit(0)
WatcherExit(s) ==
    /\ exitCode = Running
    /\ pc[Watcher(s)] = "w_exit"
    /\ exitCode' = 0
    /\ UNCHANGED <<profilingActive, sessions, pc, cur, fatal, stderr, gvars,
                   sigvars, ncalls, env, hist>>

\* ------------------------------------------------------- specifications
\* The option lists of the lifecycle runs: the default (CPU, signal handling,
\* no callback) and a tracing session with a callback.
LifecycleOptions ==
    {<<>>, <<WithTracing, WithCallback>>}

InitWith(space, fs, faults, hostBlockRate) ==
    /\ profilingActive = 0
    /\ sessions = <<>>
    /\ pc = [t \in Threads |-> IF t \in Callers THEN "idle" ELSE "off"]
    /\ cur = [t \in Threads |-> 0]
    /\ exitCode = Running
    /\ fatal = ""
    /\ stderr = <<>>
    /\ MemProfileRate = DefaultMemProfileRate
    /\ blockRate = hostBlockRate
    /\ mutexFraction = 0
    /\ cpuProfiling = 0
    /\ tracing = 0
    /\ clockSampling = {}
    /\ sigch = [s \in SessionIds |-> 0]
    /\ notified = {}
    /\ nsignals = 0
    /\ ncalls = 0
    /\ optionSpace = space
    /\ fsSpace = fs
    /\ faultSpace = faults
    /\ hist = [starts |-> 0, holder |-> 0, startLost |-> 0, stops |-> {},
               teardowns |-> [s \in SessionIds |-> 0],
               faults |-> [s \in SessionIds |-> "ok"],
               before |-> [s \in SessionIds |-> [MemProfileRate |-> 0, blockRate |-> 0]],
               options |-> [s \in SessionIds |-> <<>>],
               fs |-> [s \in SessionIds |-> "none"],
               callbacks |-> <<>>]

Init == InitWith(LifecycleOptions, {"ok", "createfail"}, {"ok"}, 0)

Next ==
    \/ \E t \in Callers : StartCAS(t)
    \/ \E t \in Callers : StartSetup(t)
    \/ \E t \in Callers : CallNew(t)
    \/ \E t \in Callers, s \in SessionIds : CallerStop(t, s)
    \/ \E t \in Threads : StopFinalizer(t)
    \/ \E t \in Threads : StopCallback(t)
    \/ \E t \in Threads : StopReport(t)
    \/ \E s \in SessionIds : WatcherNotify(s)
    \/ Signal
    \/ \E s \in SessionIds : WatcherReceive(s)
    \/ \E s \in SessionIds : WatcherSet(s)
    \/ \E s \in SessionIds : WatcherStop(s)
    \/ \E s \in SessionIds : WatcherExit(s)

Spec == Init /\ [][Next]_vars

\* The runs over every mode: one option list per mode, a sink whose writes
\* or Close may fail in the finalizer, and a host program that may have set
\* the block profile rate itself before it calls Start.
ModeOptions ==
    {<<WithCPUProfiler>>,
     <<WithHeapMemoryProfiling, WithMemoryProfilingRate(64)>>,
     <<WithAllocMemoryProfiling, WithMemoryProfilingRate(64)>>,
     <<WithBlockProfiler>>,
     <<WithGoroutineProfiler>>,
     <<WithMutexFraction(1)>>,
     <<WithThreadProfiler>>,
     <<WithTracing, WithCallback>>,
     <<WithClockProfiling, WithCallback>>}

InitModes == \E r \in {0, 1} : InitWith(ModeOptions, {"ok"}, Faults, r)

SpecModes == InitModes /\ [][Next]_vars

\* The runs of the memory modes: heap and alloc sessions with a configured
\* rate, and a heap session with the rate New read from the runtime.
MemoryOptions ==
    {<<WithHeapMemoryProfiling, WithMemoryProfilingRate(64)>>,
     <<WithAllocMemoryProfiling, WithMemoryProfilingRate(4096), WithCallback>>,
     <<WithHeapMemoryProfiling>>}

InitMemory == InitWith(MemoryOptions, {"ok"}, {"ok"}, 0)

SpecMemory == InitMemory /\ [][Next]_vars

\* The runs of the memory rate: a heap session with a configured rate, a
\* heap session without one, the default CPU session, and a tracing session
\* that was given a rate it has no use for.
RateOptions ==
    {<<WithHeapMemoryProfiling, WithMemoryProfilingRate(64)>>,
     <<WithHeapMemoryProfiling>>,
     <<>>,
     <<WithTracing, WithMemoryProfilingRate(64), WithCallback>>}

InitRates == InitWith(RateOptions, {"ok"}, {"ok"}, 0)

SpecRates == InitRates /\ [][Next]_vars

\* The runs of a snapshot mode and of the sampler mode over a sink whose
\* writes or Close may fail in the finalizer.
FlushOptions ==
    {<<WithHeapMemoryProfiling, WithCallback>>, <<WithClockProfiling>>}

InitFlush == InitWith(FlushOptions, {"ok"}, Faults, 0)

SpecFlush == InitFlush /\ [][Next]_vars

\* The runs of the streaming modes over a sink whose writes or Close may
\* fail in the finalizer.
StreamOptions ==
    {<<WithCPUProfiler>>, <<WithTracing, WithCallback>>, <<WithClockProfiling>>}

InitStreams == InitWith(StreamOptions, {"ok"}, Faults, 0)

SpecStreams == InitStreams /\ [][Next]_vars

\* The runs of Stop with and without a callback over a sink whose Close may
\* fail in the finalizer.
StopOptions ==
    {<<WithCPUProfiler>>, <<WithClockProfiling, WithCallback>>}

InitStop == InitWith(StopOptions, {"ok"}, {"ok", "closefail"}, 0)

SpecStop == InitStop /\ [][Next]_vars

\* The runs of the opt-outs: a default session with a callback, a session
\* without signal handling, and a quiet session with a callback.
OptOutOptions ==
    {<<WithCallback>>, <<WithoutSignalHandling>>, <<WithQuietOutput, WithCallback>>}

InitOptOut == InitWith(OptOutOptions, {"ok"}, {"ok"}, 0)

SpecOptOut == InitOptOut /\ [][Next]_vars

\* The steps of the host program's goroutines alone: the runs in which no
\* signal is delivered and no signal goroutine has been scheduled yet.
NextCalls ==
    \/ \E t \in Callers : StartCAS(t)
    \/ \E t \in Callers : StartSetup(t)
    \/ \E t \in Callers : CallNew(t)
    \/ \E t \in Callers, s \in SessionIds : CallerStop(t, s)
    \/ \E t \in Callers : StopFinalizer(t)
    \/ \E t \in Callers : StopCallback(t)
    \/ \E t \in Callers : StopReport(t)

\* The option that selects each mode.
ModeOption ==
    {WithCPUProfiler, WithHeapMemoryProfiling, WithAllocMemoryProfiling,
     WithBlockProfiler, WithGoroutineProfiler, WithMutexFraction(1),
     WithThreadProfiler, WithTracing, WithClockProfiling}

\* The runs of the registry: every mode alone, and every mode together with
\* all the options that select no mode, over a file system that may refuse
\* the requested folder.
RegistryOptions ==
    {<<o>> : o \in ModeOption}
    \cup {<<WithMutexFraction(5)>>}
    \cup {<<WithProfileFileLocation("/tmp/x"), WithQuietOutput, o, WithCallback,
            WithoutSignalHandling, WithMemoryProfilingRate(64)>> : o \in ModeOption}

InitRegistry == InitWith(RegistryOptions, {"ok", "fallback"}, {"ok"}, 0)

SpecRegistry == InitRegistry /\ [][NextCalls]_vars

\* The runs of the file helper: the working directory and a requested
\* folder, over every outcome of the file system.
FileOptions ==
    {<<>>, <<WithProfileFileLocation("/tmp/x"), WithCallback>>,
     <<WithTracing, WithProfileFileLocation("/tmp/x"), WithQuietOutput>>}

InitFiles == InitWith(FileOptions, FsOutcomes, {"ok"}, 0)

SpecFiles == InitFiles /\ [][NextCalls]_vars

\* The runs of the option order: no mode option, several mode options in
\* both orders, and mode options between options that select no mode.
OrderOptions ==
    {<<>>,
     <<WithQuietOutput, WithCallback, WithMemoryProfilingRate(64),
       WithProfileFileLocation("/tmp/x"), WithRealTimeData>>,
     <<WithTracing, WithClockProfiling>>,
     <<WithClockProfiling, WithoutSignalHandling, WithTracing, WithQuietOutput>>,
     <<WithHeapMemoryProfiling, WithAllocMemoryProfiling, WithCPUProfiler, WithCallback>>,
     <<WithAllocMemoryProfiling, WithMemoryProfilingRate(64), WithHeapMemoryProfiling>>,
     <<WithCPUProfiler, WithProfileFileLocation("/tmp/x"), WithMutexFraction(1)>>}

InitOrder == InitWith(OrderOptions, {"ok"}, {"ok"}, 0)

SpecOrder == InitOrder /\ [][NextCalls]_vars

\* ------------------------------------------------------------------ claims
Exited == exitCode # Running
Started(s) == s \in DOMAIN sessions /\ sessions[s].finalizer = "bound"
StopsOn(s) == {c \in hist.stops : c.p = s}
PassedOn(s) == {c \in StopsOn(s) : c.passed}
\* The host program called Start once and Stop at most once, on the session
\* Start returned: the only other Stop is the signal goroutine's.
OneSessionRun ==
    /\ Len(sessions) = 1
    /\ Started(1)
    /\ sessions[1].signalHandling
    /\ hist.startLost = 0
    /\ Cardinality({c \in StopsOn(1) : c.by = 0}) <= 1

\* C1: for a single started session with signal handling, once the caller's
\* Stop and the signal goroutine's Stop have both been invoked, exactly one
\* of them passed the guard and the finalizer has run exactly once: never
\* twice, and never zero times by the time the process has exited.
C1_StopRaceTeardownExactlyOnce ==
    (OneSessionRun /\ Cardinality(StopsOn(1)) = 2)
        => /\ Cardinality(PassedOn(1)) = 1
           /\ hist.teardowns[1] <= 1
           /\ (Exited => hist.teardowns[1] = 1)

\* A session is active from the end of its strategy until its finalizer has
\* run.
Active(s) == Started(s) /\ hist.teardowns[s] = 0

\* C2: at most one session is active at any point: while a session's capture
\* runs or its teardown has not finished, no Start begins a second capture.
C2_AtMostOneActiveSession ==
    Cardinality({s \in SessionIds : Active(s)}) <= 1

\* C3: of the Start calls issued since the last Stop that passed the guard
\* (hist.starts counts those that passed), exactly one passes the guard, and
\* every other one ends the process with the fatal "already started" error
\* and exit status 1.
C3_OneStartPassesGuard ==
    /\ hist.starts <= 1
    /\ (hist.starts = 1 <=> profilingActive = 1)
    /\ hist.startLost <= 1
    /\ (hist.startLost = 1 =>
            /\ hist.starts = 1
            /\ exitCode = 1
            /\ fatal = AlreadyStarted)

\* Two Start calls race: one is still in its strategy when the other loses
\* the guard and ends the process.
C3_Witness ==
    /\ hist.startLost = 1
    /\ \E t \in Callers : pc[t] = "start_setup"

\* C4: a Stop on a session that was never started, or that a Stop already
\* passed the guard for, never passes the guard: it is fatal with the
\* "not started" error and exit status 1.
C4_StaleStopIsFatal ==
    \A c \in hist.stops :
        c.stale => /\ ~c.passed
                   /\ exitCode = 1
                   /\ fatal = NotStarted

\* C5: every started session's finalizer is invoked at most once, and a Stop
\* passes the guard for a started session only while that session holds it.
C5_TeardownOwnedAndOnce ==
    /\ \A s \in SessionIds : hist.teardowns[s] <= 1
    /\ \A c \in hist.stops :
        (c.passed /\ Started(c.p)) => c.holder = c.p

\* C6: the guard changes only 0 -> 1 in the CAS step of a Start and 1 -> 0 in
\* the CAS step of a Stop; a step that ends in die leaves it unchanged; and
\* when a Stop completes with no Start having passed the guard since the
\* last Stop did, the guard is 0.
C6_GuardTransitions ==
    [][ /\ (profilingActive' # profilingActive =>
              \/ /\ profilingActive = 0
                 /\ profilingActive' = 1
                 /\ \E t \in Callers : pc[t] = "idle" /\ pc'[t] = "start_setup"
              \/ /\ profilingActive = 1
                 /\ profilingActive' = 0
                 /\ \E t \in Threads : /\ pc[t] \in {"idle", "w_stop"}
                                       /\ pc'[t] = "stop_fin")
        /\ (exitCode' # exitCode => profilingActive' = profilingActive)
        /\ ((\E t \in Threads : /\ pc[t] = "stop_report"
                                /\ pc'[t] # "stop_report"
                                /\ hist.starts = 0)
              => profilingActive' = 0)
      ]_vars

\* A Stop of the signal goroutine and a Stop of a caller have both completed,
\* and the guard is idle.
C6_Witness ==
    /\ profilingActive = 0
    /\ \E s \in SessionIds : pc[Watcher(s)] = "w_exit"
    /\ \E c \in hist.stops : c.by = 0 /\ c.passed

\* C7: when the signal goroutine of a session received a signal, the
\* process does not terminate before that session's finalizer has run,
\* whichever of the caller's Stop and the goroutine's Stop wins the guard.
C7_SignalTeardownBeforeExit ==
    (OneSessionRun /\ Exited /\ pc[Watcher(1)] \notin {"off", "w_notify", "w_wait"})
        => hist.teardowns[1] = 1

\* C8: a Stop invoked by a signal goroutine always passes the guard, so a
\* handled signal ends in os.Exit(0) and never in the fatal exit.
C8_HandledSignalExitsZero ==
    \A c \in hist.stops : c.by # 0 => c.passed

\* C9: the warning line is in a report exactly when the Stop that wrote the
\* report was invoked by the signal goroutine.
C9_WarningIffWatcherStop ==
    /\ \A i \in DOMAIN stderr :
        stderr[i].text = "[warning] profiling was interrupted" => stderr[i].by # 0
    /\ \A i \in DOMAIN stderr :
        (stderr[i].text = "profiling completed" /\ stderr[i].by # 0)
            => \E j \in DOMAIN stderr :
                /\ stderr[j].text = "[warning] profiling was interrupted"
                /\ stderr[j].by = stderr[i].by

\* C10: the signal goroutine is never about to write p.interrupted while a
\* caller's Stop on the same session is about to read it in its report.
C10_NoDataRaceOnInterrupted ==
    ~ \E s \in SessionIds, t \in Callers :
        /\ pc[Watcher(s)] = "w_set"
        /\ pc[t] = "stop_report"
        /\ cur[t] = s

\* ---------------------------------------------------- teardown and setup
CloseFailed == "close failed"
FlushFailed == "fgprof: write failed"
TeardownErrors == {CloseFailed, FlushFailed, "file already closed"}

\* C11: a Stop takes its steps in the order guard CAS, finalizer, callback
\* (when the session has one), report, and returns only after the report;
\* the callback is called and the report written by no other step; and a
\* finalizer that returns an error ends the process with status 1 in that
\* very step, with no callback called and no line reported.
C11_StopOrder ==
    [][ /\ \A t \in Threads :
            /\ (pc[t] # "stop_fin" /\ pc'[t] = "stop_fin") =>
                    /\ pc[t] \in {"idle", "w_stop"}
                    /\ profilingActive = 1
                    /\ profilingActive' = 0
            /\ (pc[t] # "stop_cb" /\ pc'[t] = "stop_cb") =>
                    /\ pc[t] = "stop_fin"
                    /\ sessions[cur[t]].callback
                    /\ hist'.teardowns[cur[t]] = hist.teardowns[cur[t]] + 1
            /\ (pc[t] # "stop_report" /\ pc'[t] = "stop_report") =>
                    \/ /\ pc[t] = "stop_cb"
                       /\ Len(hist'.callbacks) = Len(hist.callbacks) + 1
                    \/ /\ pc[t] = "stop_fin"
                       /\ ~sessions[cur[t]].callback
                       /\ hist'.teardowns[cur[t]] = hist.teardowns[cur[t]] + 1
            /\ (pc[t] \in {"stop_fin", "stop_cb", "stop_report"} /\ pc'[t] \in {"idle", "w_exit"}) =>
                    /\ pc[t] = "stop_report"
                    /\ hist.teardowns[cur[t]] >= 1
                    /\ sessions[cur[t]].callback =>
                            \E i \in DOMAIN hist.callbacks : hist.callbacks[i].p = cur[t]
        /\ hist'.callbacks # hist.callbacks =>
                \E t \in Threads : pc[t] = "stop_cb" /\ pc'[t] = "stop_report"
        /\ stderr' # stderr =>
                \E t \in Threads : \/ pc[t] = "stop_report" /\ pc'[t] # "stop_report"
                                   \/ pc[t] = "w_wait" /\ pc'[t] = "w_set"
        /\ (hist'.teardowns # hist.teardowns /\ fatal' # fatal) =>
                /\ exitCode' = 1
                /\ fatal' \in TeardownErrors
                /\ pc' = pc
                /\ hist'.callbacks = hist.callbacks
                /\ stderr' = stderr
        /\ exitCode # Running => (hist' = hist /\ stderr' = stderr /\ pc' = pc)
      ]_vars

\* The Close of a finalizer failed in the Stop of a session that has a
\* callback: the process has exited with the callback never called.
C11_Witness ==
    /\ exitCode = 1
    /\ fatal = CloseFailed
    /\ \E t \in Threads : /\ pc[t] = "stop_fin"
                          /\ sessions[cur[t]].callback
                          /\ hist.callbacks = <<>>

\* Every Stop so far was called on a started session that no Stop had
\* passed the guard for, and no Start lost the guard.
NoStaleCall ==
    /\ hist.startLost = 0
    /\ \A c \in hist.stops : ~c.stale

MemoryModes == {MemoryHeapMode, MemoryAllocMode}

\* C12: for a started heap or alloc session, runtime.MemProfileRate is the
\* session's configured rate until a Stop on it passes the guard; and once
\* the finalizers of all started sessions have run, it is the value it had
\* before the first Start.
C12_MemRateRoundTrip ==
    NoStaleCall =>
        /\ \A s \in DOMAIN sessions :
            (Started(s) /\ sessions[s].profileMode \in MemoryModes /\ PassedOn(s) = {})
                => MemProfileRate = sessions[s].memoryProfileRate
        /\ ((\A s \in DOMAIN sessions : Started(s) /\ hist.teardowns[s] = 1)
             /\ Pending = 0)
                => MemProfileRate = DefaultMemProfileRate

\* How many times the finalizer of mode m closes the sink.
Closes(m) ==
    Cardinality({i \in DOMAIN TeardownSteps(m) : TeardownSteps(m)[i] = "Close"})

\* C13: once the finalizer of a started session has run, whether it returned
\* nil or an error and whatever the writes before the Close did, the
\* session's sink is closed, and the finalizer closes it exactly once.
C13_SinkClosedOnce ==
    \A s \in DOMAIN sessions :
        (Started(s) /\ hist.teardowns[s] >= 1)
            => /\ ~sessions[s].profileFile.open
               /\ Closes(sessions[s].profileMode) = 1

\* The backend still streams or samples into the sink of session u.
Streaming(g, u) == g.cpuProfiling = u \/ g.tracing = u \/ u \in g.clockSampling

StreamModes == {CPUMode, TraceMode, ClockMode}

SetupErrors ==
    {NotImplemented, "failed to create temp folder", "failed to create profile file",
     "cpu profiling already in use", "tracing is already enabled"}

\* C15: when Start's strategy lookup or strategy fails, the process has
\* exited with a non-zero status in that step: the Start has not returned,
\* the session it built has no finalizer bound and no signal goroutine; and
\* a signal goroutine exists only for a session whose strategy succeeded.
C15_SetupFailureIsFatal ==
    /\ fatal \in SetupErrors =>
            /\ exitCode \notin {Running, 0}
            /\ \E t \in Callers : pc[t] = "start_setup"
            /\ sessions[Len(sessions)].finalizer = "nil"
            /\ pc[Watcher(Len(sessions))] = "off"
            /\ Len(sessions) \notin notified
    /\ \A s \in SessionIds :
            pc[Watcher(s)] # "off" => Started(s)

\* A strategy returned an error (the CPU profiler was already running) and
\* Start died on it.
C15_Witness ==
    /\ fatal = "cpu profiling already in use"
    /\ exitCode = 1
    /\ \E s \in SessionIds : pc[Watcher(s)] # "off"

\* C16: when a strategy returns an error, the sink it opened is closed and
\* no capture it started is running.
C16_FailedStrategyHoldsNothing ==
    fatal \in SetupErrors =>
        LET s == Len(sessions)
        IN  /\ ~sessions[s].profileFile.open
            /\ ~Streaming(Globals, s)

\* The steps of a finalizer whose call returns an error value.
ErrorSteps == {"WriteTo", "teardown", "Close"}

\* The step of the finalizer of mode m that fails when the sink behaves as
\* td, "" when none does: a write or the sampler's flush under "flushfail",
\* the Close under "closefail".
FailedStep(m, td) ==
    LET steps == TeardownSteps(m)
        has(op) == \E i \in DOMAIN steps : steps[i] = op
    IN  CASE td = "flushfail" /\ has("teardown") -> "teardown"
          [] td = "flushfail" /\ has("WriteTo") -> "WriteTo"
          [] td = "closefail" /\ has("Close") -> "Close"
          [] OTHER -> ""

\* C17: when a step of a started session's finalizer that returns an error
\* fails (the snapshot write, the sampler's flush, the Close), the Stop that
\* ran the finalizer has ended the process with status 1, with the flush
\* error for a failed write or flush and the close error for a failed Close.
C17_TeardownFailureIsFatal ==
    \A s \in DOMAIN sessions :
        (Started(s) /\ hist.teardowns[s] = 1
         /\ FailedStep(sessions[s].profileMode, hist.faults[s]) \in ErrorSteps) =>
            /\ exitCode = 1
            /\ fatal = IF hist.faults[s] = "flushfail" THEN FlushFailed ELSE CloseFailed

\* C18: in a run of one Start and one Stop on the session it returned, once
\* the finalizer has run, runtime.MemProfileRate and the block profile rate
\* have the values they had when Start was called.
C18_GlobalsRestored ==
    (Len(sessions) = 1 /\ Started(1) /\ NoStaleCall /\ hist.teardowns[1] = 1) =>
        /\ MemProfileRate = hist.before[1].MemProfileRate
        /\ blockRate = hist.before[1].blockRate

\* C19: a session Start returned has a signal goroutine exactly when its
\* signalHandling is set, which it is unless WithoutSignalHandling was
\* passed; a session without signal handling is never registered for
\* signals, its interrupted flag is never set, and every Stop on it was
\* called by the host program.
C19_WatcherIffSignalHandling ==
    \A s \in DOMAIN sessions :
        /\ Started(s) => (pc[Watcher(s)] # "off" <=> sessions[s].signalHandling)
        /\ ~Started(s) => pc[Watcher(s)] = "off"
        /\ ~sessions[s].signalHandling =>
                /\ pc[Watcher(s)] = "off"
                /\ s \notin notified
                /\ sigch[s] = 0
                /\ ~sessions[s].interrupted
                /\ \A c \in StopsOn(s) : c.by = 0

\* A signal was handled by the goroutine of one session while a session
\* without signal handling was started and stopped by the host program.
C19_Witness ==
    \E s, u \in DOMAIN sessions :
        /\ Started(s)
        /\ ~sessions[s].signalHandling
        /\ PassedOn(s) # {}
        /\ sessions[u].interrupted

\* What a Stop on session s has done when it returns, quiet or not: the
\* finalizer has run, the sink is closed when the finalizer of the mode
\* closes it, and the callback, when the session has one, was called.
StopDone(s) ==
    /\ hist'.teardowns[s] >= 1
    /\ Closes(sessions[s].profileMode) = 1 => ~sessions'[s].profileFile.open
    /\ sessions[s].callback =>
            \E i \in DOMAIN hist'.callbacks : hist'.callbacks[i].p = s

\* C20: no line is ever written to the log for a quiet session; the report step of a
\* Stop and the signal notice of the goroutine write nothing for a quiet
\* session and write their lines for any other; and apart from the log each
\* of the two steps has the same effect for both: the Stop returns with the
\* finalizer run, the sink closed and the callback called, and the goroutine
\* consumes the signal and goes on to set interrupted.
C20_QuietOnlySilencesReports ==
    [][ /\ \A i \in DOMAIN stderr' : ~sessions'[stderr'[i].p].quiet
        /\ \A t \in Threads :
            (pc[t] = "stop_report" /\ pc'[t] # "stop_report") =>
                /\ (sessions[cur[t]].quiet => stderr' = stderr)
                /\ (~sessions[cur[t]].quiet => Len(stderr') >= Len(stderr) + 4)
                /\ StopDone(cur[t])
                /\ UNCHANGED <<profilingActive, sessions, hist, gvars, exitCode>>
        /\ \A s \in SessionIds :
            (pc[Watcher(s)] = "w_wait" /\ pc'[Watcher(s)] = "w_set") =>
                /\ (sessions[s].quiet => stderr' = stderr)
                /\ (~sessions[s].quiet => Len(stderr') = Len(stderr) + 1)
                /\ sigch'[s] = sigch[s] - 1
                /\ UNCHANGED <<profilingActive, sessions, hist, gvars, exitCode>>
      ]_vars

\* The signal goroutine of a quiet session with a callback has handled a
\* signal and completed its Stop, and no line of the log is from the session.
C20_Witness ==
    \E s \in DOMAIN sessions :
        /\ sessions[s].quiet
        /\ sessions[s].callback
        /\ pc[Watcher(s)] = "w_exit"
        /\ hist.teardowns[s] = 1
        /\ ~sessions[s].profileFile.open
        /\ \E i \in DOMAIN hist.callbacks : hist.callbacks[i].p = s
        /\ \A i \in DOMAIN stderr : stderr[i].p # s

\* The calls of the callback made so far for session s.
CallbacksOf(h, s) == {i \in DOMAIN h.callbacks : h.callbacks[i].p = s}

\* C21: the callback is called in one step only, between the finalizer and
\* the report of a Stop on a session that has one: that step makes exactly
\* one call, for the Stop's session, after its finalizer has run; a call
\* made by a signal goroutine sees interrupted = TRUE; a Stop on a session
\* without a callback goes from the finalizer to the report with no call;
\* and a session never has more calls than finalizer runs.
C21_CallbackOncePerStop ==
    [][ /\ \A t \in Threads :
            /\ (pc[t] = "stop_cb" /\ pc'[t] # "stop_cb") =>
                    /\ pc'[t] = "stop_report"
                    /\ sessions[cur[t]].callback
                    /\ hist.teardowns[cur[t]] >= 1
                    /\ Len(hist'.callbacks) = Len(hist.callbacks) + 1
                    /\ SubSeq(hist'.callbacks, 1, Len(hist.callbacks)) = hist.callbacks
                    /\ hist'.callbacks[Len(hist'.callbacks)].p = cur[t]
                    /\ hist'.callbacks[Len(hist'.callbacks)].by = Who(t)
                    /\ t \in Watchers => hist'.callbacks[Len(hist'.callbacks)].interrupted
            /\ (pc[t] = "stop_fin" /\ pc'[t] = "stop_report") =>
                    ~sessions[cur[t]].callback
            /\ (pc[t] = "stop_fin" /\ pc'[t] = "stop_cb") =>
                    sessions[cur[t]].callback
        /\ hist'.callbacks # hist.callbacks =>
                \E t \in Threads : pc[t] = "stop_cb" /\ pc'[t] = "stop_report"
        /\ \A s \in DOMAIN sessions' :
                /\ Cardinality(CallbacksOf(hist', s)) <= hist'.teardowns[s]
                /\ ~sessions'[s].callback => CallbacksOf(hist', s) = {}
      ]_vars

\* The Stop of a signal goroutine has called the callback, which saw the
\* session interrupted, and has gone on to its report.
C21_Witness ==
    \E i \in DOMAIN hist.callbacks :
        /\ hist.callbacks[i].by # 0
        /\ hist.callbacks[i].interrupted
        /\ pc[hist.callbacks[i].by] \in {"stop_report", "w_exit"}

\* The file name the output table gives each mode.
OutputTable ==
    [m \in Modes |->
        CASE m = CPUMode -> "cpu.pprof"
          [] m \in {MemoryHeapMode, MemoryAllocMode} -> "memory.pprof"
          [] m = MutexMode -> "mutex.pprof"
          [] m = BlockMode -> "block.pprof"
          [] m = GoroutineMode -> "goroutine.pprof"
          [] m = ThreadCreateMode -> "threadcreate.pprof"
          [] m = TraceMode -> "trace.out"
          [] m = ClockMode -> "clock.pprof"]

SelectedBy(o) ==
    CASE o.opt = "WithCPUProfiler" -> CPUMode
      [] o.opt = "WithHeapMemoryProfiling" -> MemoryHeapMode
      [] o.opt = "WithAllocMemoryProfiling" -> MemoryAllocMode
      [] o.opt = "WithMutexFraction" -> MutexMode
      [] o.opt = "WithTracing" -> TraceMode
      [] o.opt = "WithClockProfiling" -> ClockMode
      [] o.opt = "WithBlockProfiler" -> BlockMode
      [] o.opt = "WithGoroutineProfiler" -> GoroutineMode
      [] o.opt = "WithThreadProfiler" -> ThreadCreateMode
      [] OTHER -> -1

\* The mode the last mode-selecting option of the list selects, CPU when the
\* list has none.
RECURSIVE LastSelected(_)
LastSelected(options) ==
    IF options = <<>> THEN CPUMode
    ELSE LET o == options[Len(options)]
         IN  IF SelectedBy(o) # -1 THEN SelectedBy(o)
             ELSE LastSelected(SubSeq(options, 1, Len(options) - 1))

\* C23: the mode of a session Start returned is the mode of the last
\* mode-selecting option Start was passed, whatever options that select no
\* mode come before, between or after, and CPU when it was passed none.
C23_LastModeOptionWins ==
    \A s \in DOMAIN sessions :
        Started(s) => sessions[s].profileMode = LastSelected(hist.options[s])

\* One session was started with two mode options and took the later one,
\* and one with only options that select no mode and took CPU.
C23_Witness ==
    \E s, u \in DOMAIN sessions :
        /\ Started(s) /\ Started(u)
        /\ hist.options[s] = <<WithTracing, WithClockProfiling>>
        /\ sessions[s].profileMode = ClockMode
        /\ Len(hist.options[u]) = 5
        /\ sessions[u].profileMode = CPUMode

\* The view command the report gives for a mode.
ViewCommand(m) ==
    IF m = TraceMode THEN "go tool trace" ELSE "go tool pprof -http :8080"

\* The lines a Stop of session s writes when nothing interrupted it.
CleanReport(s) ==
    LET f == sessions[s].profileFile
        m == sessions[s].profileMode
        line(text, arg) == [text |-> text, arg |-> arg, p |-> s, by |-> 0]
    IN  <<line("profiling completed", Args(Ext(OutputTable[m]), f)),
          line("to view the profile", Args(ViewCommand(m), f))>>
        \o (IF m = TraceMode THEN <<>>
            ELSE <<line("port can be any ephemeral port", NoArgs),
                   line("Graph interpretation is outlined here", NoArgs)>>)

\* The run is one Start and one Stop of the session by the host program,
\* both returned, for a session that is not quiet.
StartThenStop ==
    /\ Len(sessions) = 1
    /\ Started(1)
    /\ ~sessions[1].quiet
    /\ hist.startLost = 0
    /\ Cardinality(StopsOn(1)) = 1
    /\ \A t \in Callers : pc[t] = "idle"

RECURSIVE MutexFractionOf(_)
MutexFractionOf(options) ==
    IF options = <<>> THEN 1
    ELSE LET o == options[Len(options)]
         IN  IF o.opt = "WithMutexFraction" THEN o.rate
             ELSE MutexFractionOf(SubSeq(options, 1, Len(options) - 1))

\* C25: while a Mutex session is capturing, the mutex profile fraction of
\* the runtime is the rate its WithMutexFraction option was given, 1 when it
\* was given none.
C25_MutexFractionApplied ==
    \A s \in DOMAIN sessions :
        (Active(s) /\ sessions[s].profileMode = MutexMode) =>
            mutexFraction = MutexFractionOf(hist.options[s])

\* The errors of CreateProfileFile.
FileErrors == {"failed to create temp folder", "failed to create profile file"}

\* What CreateProfileFile returned to the Start that built session s, read
\* from what SetProfileFile did with it: the sink is bound and open, or the
\* process died with the error and no sink was bound.
FileReturned(s) ==
    /\ hist.fs[s] \in {"ok", "fallback"} =>
            /\ sessions[s].profileFile.name = StrategyMap[sessions[s].profileMode]
            /\ s = Len(sessions) => fatal \notin FileErrors
            /\ hist.teardowns[s] = 0 => sessions[s].profileFile.open
    /\ hist.fs[s] \in {"tempfail", "createfail"} =>
            /\ sessions[s].profileFile = NoFile
            /\ fatal \in FileErrors
            /\ exitCode = 1
    /\ hist.fs[s] = "ok" => sessions[s].profileFile.folder = sessions[s].profileFolder
    /\ hist.fs[s] = "fallback" => sessions[s].profileFile.folder = TempFolder

\* C26 as stated: CreateProfileFile gives an open sink or an error, never
\* both; when the requested folder cannot be made the sink is made in a
\* temporary folder; and the process dies on an error of CreateProfileFile
\* only when the file itself could not be created.
C26_OnlyFileCreationIsFatal ==
    /\ \A s \in DOMAIN sessions : FileReturned(s)
    /\ fatal \in FileErrors => fatal = "failed to create profile file"

\* C26 amended: as above, and the process dies on an error of
\* CreateProfileFile when the temporary folder could not be made or when the
\* file itself could not be created.
C26_FileOrTempFolderIsFatal ==
    /\ \A s \in DOMAIN sessions : FileReturned(s)
    /\ fatal \in FileErrors =>
            /\ hist.fs[Len(sessions)] \in {"tempfail", "createfail"}
            /\ fatal = (IF hist.fs[Len(sessions)] = "tempfail"
                        THEN "failed to create temp folder"
                        ELSE "failed to create profile file")
    /\ \A s \in DOMAIN sessions :
            hist.fs[s] \in {"tempfail", "createfail"} => s = Len(sessions)

\* A session was started in the temporary folder after the folder it asked
\* for could not be made, and a later Start died because the file could not
\* be created.
C26_Witness ==
    /\ Len(sessions) = 2
    /\ hist.fs[1] = "fallback"
    /\ sessions[1].profileFolder = "/tmp/x"
    /\ sessions[1].profileFile.folder = TempFolder
    /\ hist.fs[2] = "createfail"
    /\ fatal = "failed to create profile file"

\* The position of a signal goroutine in its body, in program order.
WatcherRank(at) ==
    CASE at = "off" -> 0
      [] at = "w_notify" -> 1
      [] at = "w_wait" -> 2
      [] at = "w_set" -> 3
      [] at = "w_stop" -> 4
      [] at = "stop_fin" -> 5
      [] at = "stop_cb" -> 6
      [] at = "stop_report" -> 7
      [] at = "w_exit" -> 8

\* C27: a signal goroutine never goes back in its body, so it takes one
\* signal from its channel and calls Stop once; it calls Stop on its own
\* session and only with the interrupted flag of that session set; it
\* reaches os.Exit only from the end of that Stop; and the process exits
\* with status 0 only in the os.Exit step of a goroutine whose Stop has
\* passed the guard, run the finalizer and returned.
C27_WatcherOrder ==
    [][ /\ \A s \in SessionIds :
            LET w == Watcher(s)
            IN  /\ WatcherRank(pc'[w]) >= WatcherRank(pc[w])
                /\ (pc[w] = "w_wait" /\ pc'[w] # "w_wait") =>
                        /\ pc'[w] = "w_set"
                        /\ sigch[s] > 0
                        /\ sigch'[s] = sigch[s] - 1
                /\ (pc[w] = "w_set" /\ pc'[w] # "w_set") =>
                        /\ pc'[w] = "w_stop"
                        /\ sessions'[s].interrupted
                /\ (pc[w] = "w_stop" /\ pc'[w] # "w_stop") =>
                        /\ pc'[w] = "stop_fin"
                        /\ cur'[w] = s
                        /\ sessions[s].interrupted
                        /\ \E c \in hist'.stops \ hist.stops : c.p = s /\ c.by = w
                /\ (pc[w] # "w_exit" /\ pc'[w] = "w_exit") =>
                        /\ pc[w] = "stop_report"
                        /\ cur[w] = s
                /\ pc[w] \in {"w_stop", "stop_fin", "stop_cb", "stop_report", "w_exit"} =>
                        sessions[s].interrupted
        /\ (exitCode = Running /\ exitCode' = 0) =>
                \E s \in SessionIds :
                    /\ pc[Watcher(s)] = "w_exit"
                    /\ sessions[s].interrupted
                    /\ hist.teardowns[s] >= 1
                    /\ \E c \in PassedOn(s) : c.by = Watcher(s)
      ]_vars

\* A signal goroutine has set the flag, stopped its session and exited the
\* process with status 0.
C27_Witness ==
    \E s \in DOMAIN sessions :
        /\ exitCode = 0
        /\ pc[Watcher(s)] = "w_exit"
        /\ sessions[s].interrupted
        /\ hist.teardowns[s] = 1
        /\ \E c \in PassedOn(s) : c.by = Watcher(s)

\* C28: every line a signal goroutine has written to the log was written
\* with the interrupted flag of its session already set.
C28_FlagBeforeAnyReport ==
    \A i \in DOMAIN stderr :
        stderr[i].by \in Watchers => sessions[stderr[i].p].interrupted

\* C29: a Stop a signal goroutine makes while a session holds the guard is a
\* Stop on that session, which no Stop has yet passed the guard for: the
\* goroutine of a session the host program has stopped makes none, so it
\* releases no other session's guard, runs no finalizer a second time and
\* has not marked its session interrupted.
C29_SignalStopsOnlyActiveSession ==
    /\ \A c \in hist.stops :
            (c.by # 0 /\ c.holder > 0) => (c.p = c.holder /\ ~c.stale)
    /\ \A s \in DOMAIN sessions :
            (hist.holder > 0 /\ hist.holder # s /\ sessions[s].interrupted) =>
                \A c \in PassedOn(s) : c.by # 0

\* C30: a Start passes on to New and its strategy only by taking the guard
\* from 0 to 1; a Start that finds the guard held ends the process with
\* status 1 in that step and changes nothing else: the guard stays held, no
\* session is constructed, every session keeps its sink and its fields, the
\* settings of the runtime and the captures of the backends are as they
\* were, and no signal goroutine is spawned or registered.
C30_LostStartChangesNothing ==
    [][ /\ \A t \in Callers :
            (pc[t] = "idle" /\ pc'[t] = "start_setup") =>
                (profilingActive = 0 /\ profilingActive' = 1)
        /\ (exitCode = Running /\ fatal' = AlreadyStarted) =>
                /\ profilingActive = 1
                /\ exitCode' = 1
                /\ hist'.startLost = hist.startLost + 1
                /\ UNCHANGED <<profilingActive, sessions, pc, cur, stderr>>
                /\ UNCHANGED <<MemProfileRate, blockRate, mutexFraction,
                               cpuProfiling, tracing, clockSampling>>
                /\ UNCHANGED <<sigch, notified>>
        /\ hist'.startLost # hist.startLost => fatal' = AlreadyStarted
      ]_vars

\* A Start died on the guard while a session was capturing into its open
\* sink.
C30_Witness ==
    /\ hist.startLost = 1
    /\ exitCode = 1
    /\ fatal = AlreadyStarted
    /\ \E s \in DOMAIN sessions :
            /\ Active(s)
            /\ sessions[s].profileFile.open
            /\ hist.holder = s

\* Session s was given a memory rate by one of its options.
HasRateOption(s) ==
    \E i \in DOMAIN hist.options[s] : hist.options[s][i].opt = "WithMemoryProfilingRate"

\* Session s is of a memory mode and was given a rate.
SetsMemRate(s) == sessions[s].profileMode \in MemoryModes /\ HasRateOption(s)

\* C31: while a session that is not of a memory mode, or that was given no
\* memory rate, is between its Start and the end of its finalizer,
\* runtime.MemProfileRate is the value it had when that Start was called.
C31_MemRateUntouched ==
    NoStaleCall =>
        \A s \in DOMAIN sessions :
            (Active(s) /\ ~SetsMemRate(s)) =>
                MemProfileRate = hist.before[s].MemProfileRate

\* The modes whose strategy writes the profile during Start.
SnapshotModes == {MutexMode, GoroutineMode}

\* The profile the strategy of a snapshot mode looks up.
LookupName(m) == IF m = MutexMode THEN "mutex" ELSE "goroutine"

\* C32: from the return of its Start on, the sink of a mutex or goroutine
\* session holds the one profile its strategy wrote, before the finalizer
\* has run and after; the finalizer's only step is the Close, and once it
\* has run the sink is closed.
C32_SnapshotTakenAtStart ==
    \A s \in DOMAIN sessions :
        (Started(s) /\ sessions[s].profileMode \in SnapshotModes) =>
            /\ sessions[s].profileFile.data = <<LookupName(sessions[s].profileMode)>>
            /\ TeardownSteps(sessions[s].profileMode) = <<"Close">>
            /\ hist.teardowns[s] >= 1 => ~sessions[s].profileFile.open

\* A mutex session was started and stopped, its Stop has returned, and its
\* closed sink holds the profile written during Start.
C32_Witness ==
    \E s \in DOMAIN sessions :
        /\ Started(s)
        /\ sessions[s].profileMode = MutexMode
        /\ hist.teardowns[s] = 1
        /\ \A t \in Callers : pc[t] = "idle"
        /\ ~sessions[s].profileFile.open
        /\ sessions[s].profileFile.data = <<"mutex">>

====
